---- MODULE Spec2Model ----
(***************************************************************************)
(* A model of the linked lists of ryym/rust-lists:                         *)
(*   unsafe_deque.rs  the singly-linked queue with a raw tail pointer      *)
(*   fourth.rs        the doubly-linked deque of Rc<RefCell<Node>>         *)
(*   third.rs         the persistent list of Arc<Node>                     *)
(*   second.rs        the singly-linked stack of Box<Node>                 *)
(* The four lists share no state.  A behaviour exercises one of them; the  *)
(* variable comp says which.  Nodes live in a heap indexed by addresses;   *)
(* NULL is the null pointer and the None link.  An Option<T> value is a    *)
(* sequence of length at most one.                                         *)
(***************************************************************************)
EXTENDS Integers, Sequences, FiniteSets

\* ------------------------------------------------------------------ bounds
\* Addresses the allocator can hand out to the queue's nodes.
QNodes == 3
\* Calls of push on one queue (the length of the history that is kept).
MaxPushes == 4

\* Addresses for the stack's nodes, and calls of push on one stack.
SNodes == 3
MaxStackPushes == 4
\* Addresses for the persistent list's nodes, and list values alive at once.
PNodes == 2
PLists == 2
\* Addresses for the deque's nodes, and peek views (Ref, RefMut) alive at once.
DNodes == 3
DViews == 2
\* For the lists dropped by two threads: the nodes they share at most, and the
\* nodes each has of its own at most.
MaxShared == 2
MaxOwn == 1

\* The element values the callers push.
Elems == {1, 2}

NULL == 0
None == <<>>
Some(v) == <<v>>

VARIABLES
  comp,   \* which list this behaviour exercises
  last,   \* the last call: its name, its argument and what it returned
  q,      \* unsafe_deque::List: head, tail, the nodes and the allocated addresses
  qit,    \* what holds the queue: the caller, an iterator or Drop
  qlog,   \* what the caller has pushed and what pop has returned so far
  s,      \* second::List: head, the nodes and the allocated addresses
  sit,    \* what holds the stack: the caller, an iterator or Drop
  slog,   \* the stack's history, and the stack the caller expects
  p,      \* third: the nodes, their strong counts and the List values
  pit,    \* the third::Iter in use: the list it borrows and its cursor
  d,      \* fourth::List: head, tail, the nodes, their counts and borrow flags
  dit,    \* what holds the deque: the caller or Drop
  arcs    \* third: lists that share nodes and the two threads that drop them

vars == <<comp, last, q, qit, qlog, s, sit, slog, p, pit, d, dit, arcs>>
dvars == <<d, dit>>
qvars == <<q, qit, qlog>>
svars == <<s, sit, slog>>
pvars == <<p, pit>>
notq == <<svars, pvars, dvars, arcs>>
nots == <<qvars, pvars, dvars, arcs>>
notp == <<qvars, svars, dvars, arcs>>
notd == <<qvars, svars, pvars, arcs>>
notc == <<last, qvars, svars, pvars, dvars>>

\* The lowest free address.  Safe code cannot observe which address Box::new,
\* Rc::new or Arc::new returns, so one choice stands for all.
Alloc(free) == CHOOSE a \in free : \A b \in free : a <= b

Call(op, arg, ret) == [op |-> op, arg |-> arg, ret |-> ret]

\* ------------------------------------------------- unsafe_deque.rs: List
QAddrs == 1..QNodes

\* The content of memory that holds no node.
QFree == [elem |-> 0, next |-> NULL]

\* List::new
queue_new ==
  [head |-> NULL, tail |-> NULL, node |-> [a \in QAddrs |-> QFree],
   live |-> {}, ub |-> FALSE]

\* A push that sets tail only when the list was empty.
queue_push_keep_tail(l, elem, a, store) ==
  LET new == [l EXCEPT !.node[a] = [elem |-> elem, next |-> NULL],
                       !.live = @ \cup {a}]
  IN IF l.tail = NULL
       THEN [new EXCEPT !.head = a, !.tail = a]
       ELSE [new EXCEPT !.node[l.tail].next = a]

\* List::push.  a is the address Box::new returns.  The write through tail is
\* unchecked: when tail is not the address of an allocated node of the chain
\* the behaviour is undefined, ub records it, and store says whether the
\* write lands (in the new node, when the allocator reused the address) or
\* is lost.
queue_push(l, elem, a, store) ==
  LET new == [l EXCEPT !.node[a] = [elem |-> elem, next |-> NULL],
                       !.live = @ \cup {a}]
  IN IF l.tail = NULL
       THEN [new EXCEPT !.head = a, !.tail = a]
       ELSE IF l.tail \in l.live
         THEN [new EXCEPT !.node[l.tail].next = a, !.tail = a]
         ELSE IF store /\ l.tail = a
           THEN [new EXCEPT !.node[a].next = a, !.tail = a, !.ub = TRUE]
           ELSE [new EXCEPT !.tail = a, !.ub = TRUE]

\* A pop that forgets to reset tail when the chain becomes empty.
queue_pop_stale_tail(l) ==
  IF l.head = NULL
    THEN [list |-> l, ret |-> None]
    ELSE [list |-> [l EXCEPT !.head = l.node[l.head].next,
                             !.node[l.head] = QFree,
                             !.live = @ \ {l.head}],
          ret |-> Some(l.node[l.head].elem)]

\* List::pop: the list afterwards and the value returned.  The node is moved
\* out of its Box, which frees it.
queue_pop(l) ==
  IF l.head = NULL
    THEN [list |-> l, ret |-> None]
    ELSE LET nx == l.node[l.head].next
             l1 == [l EXCEPT !.head = nx,
                             !.node[l.head] = QFree,
                             !.live = @ \ {l.head}]
         IN [list |-> IF nx = NULL THEN [l1 EXCEPT !.tail = NULL] ELSE l1,
             ret |-> Some(l.node[l.head].elem)]

\* An iter that starts at the node tail points to.
queue_iter_at_tail(l) == l.tail

\* List::iter and List::iter_mut: the cursor starts at the head node.
queue_iter(l) == l.head

\* An Iter::next that rewinds the cursor to the head when it returns None.
queue_iter_next_rewind(l, cur) ==
  IF cur = NULL
    THEN [cur |-> l.head, ret |-> None, node |-> NULL]
    ELSE [cur |-> l.node[cur].next, ret |-> Some(l.node[cur].elem),
          node |-> cur]

\* Iter::next: the cursor afterwards, the value returned and the node the
\* reference returned points into.
queue_iter_next(l, cur) ==
  IF cur = NULL
    THEN [cur |-> NULL, ret |-> None, node |-> NULL]
    ELSE [cur |-> l.node[cur].next, ret |-> Some(l.node[cur].elem),
          node |-> cur]

\* An IterMut::next that puts the reference it took back into the cursor.
queue_iter_mut_next_stay(l, cur) ==
  IF cur = NULL
    THEN [cur |-> NULL, ret |-> None, node |-> NULL]
    ELSE [cur |-> cur, ret |-> Some(l.node[cur].elem), node |-> cur]

\* IterMut::next: take() empties the cursor before the node is looked at.
queue_iter_mut_next(l, cur) ==
  LET taken == cur
      emptied == NULL
  IN IF taken = NULL
       THEN [cur |-> emptied, ret |-> None, node |-> NULL]
       ELSE [cur |-> l.node[taken].next, ret |-> Some(l.node[taken].elem),
             node |-> taken]

\* Dropping a Box<Node>: the node is freed, and with it the box in its next,
\* if it still holds one.
RECURSIVE BoxDrop(_, _)
BoxDrop(l, a) ==
  IF a = NULL
    THEN l
    ELSE BoxDrop([l EXCEPT !.node[a] = QFree, !.live = @ \ {a}], l.node[a].next)

\* A Drop that lets go of the box it holds with the chain still in it, as the
\* derived drop does.
queue_drop_step_derived(l, cur) ==
  [list |-> BoxDrop(l, cur), cur |-> NULL]

\* Drop for List, one turn of the loop on node cur: its next is taken, and
\* the box is dropped at the end of the turn.
queue_drop_step(l, cur) ==
  LET l1 == [l EXCEPT !.node[cur].next = NULL]
  IN [list |-> BoxDrop(l1, cur), cur |-> l.node[cur].next]

\* Who holds the queue: mode "list" is the caller, between calls; cur is the
\* cursor of the iterator or of Drop.  For an iterator, at is the list it was
\* made from, out the values next() has returned so far and given the nodes
\* whose element next() has returned a reference to: the references live as
\* long as the borrow of the list, so the caller may hold them all.
QHeld(mode, cur, nones) ==
  [mode |-> mode, cur |-> cur, nones |-> nones, at |-> queue_new, out |-> <<>>,
   given |-> <<>>]

\* nones counts, up to two, how often next() has returned None.
Exhaust(nones, ret) == IF ret = None /\ nones < 2 THEN nones + 1 ELSE nones
QIdle == QHeld("list", NULL, 0)
QLogEmpty == [pushed |-> <<>>, popped |-> <<>>, drains |-> 0]

\* What a pop that returned ret adds to the history.
QLogPop(log, r) ==
  IF r.ret = None
    THEN log
    ELSE [log EXCEPT !.popped = @ \o r.ret,
                     !.drains = IF r.list.head = NULL THEN @ + 1 ELSE @]

QNew ==
  /\ comp = "queue"
  /\ qit.mode = "dropped"
  /\ q' = queue_new
  /\ qit' = QIdle
  /\ qlog' = QLogEmpty
  /\ last' = Call("new", None, None)
  /\ UNCHANGED <<comp, notq>>

QPush ==
  /\ comp = "queue"
  /\ qit.mode = "list"
  /\ Len(qlog.pushed) < MaxPushes
  /\ \E elem \in Elems, a \in QAddrs \ q.live, store \in BOOLEAN :
       /\ q' = queue_push(q, elem, a, store)
       /\ qlog' = [qlog EXCEPT !.pushed = Append(@, elem)]
       /\ last' = Call("push", Some(elem), None)
  /\ UNCHANGED <<comp, notq, qit>>

QPop ==
  /\ comp = "queue"
  /\ qit.mode = "list"
  /\ LET r == queue_pop(q)
     IN /\ q' = r.list
        /\ qlog' = QLogPop(qlog, r)
        /\ last' = Call("pop", None, r.ret)
  /\ UNCHANGED <<comp, notq, qit>>

\* List::into_iter: the iterator owns the list from here on.
QIntoIter ==
  /\ comp = "queue"
  /\ qit.mode = "list"
  /\ qit' = [QHeld("into_iter", NULL, 0) EXCEPT !.at = q]
  /\ last' = Call("into_iter", None, None)
  /\ UNCHANGED <<comp, notq, q, qlog>>

\* IntoIter::next is List::pop.
QIntoIterNext ==
  /\ comp = "queue"
  /\ qit.mode = "into_iter"
  /\ LET r == queue_pop(q)
     IN /\ q' = r.list
        /\ qlog' = QLogPop(qlog, r)
        /\ qit' = [qit EXCEPT !.nones = Exhaust(@, r.ret), !.out = @ \o r.ret]
        /\ last' = Call("next", None, r.ret)
  /\ UNCHANGED <<comp, notq>>

\* List::iter and List::iter_mut borrow the list: until the iterator is
\* dropped only the iterator is used.
QIter ==
  /\ comp = "queue"
  /\ qit.mode = "list"
  /\ \E m \in {"iter", "iter_mut"} :
       /\ qit' = [QHeld(m, queue_iter(q), 0) EXCEPT !.at = q]
       /\ last' = Call(m, None, None)
  /\ UNCHANGED <<comp, notq, q, qlog>>

QIterNext ==
  /\ comp = "queue"
  /\ qit.mode \in {"iter", "iter_mut"}
  /\ LET r == IF qit.mode = "iter"
                THEN queue_iter_next(q, qit.cur)
                ELSE queue_iter_mut_next(q, qit.cur)
     IN /\ qit' = [qit EXCEPT !.cur = r.cur, !.nones = Exhaust(@, r.ret),
                           !.out = @ \o r.ret,
                           !.given = IF r.ret = None THEN @ ELSE Append(@, r.node)]
        /\ last' = Call("next", None, r.ret)
  /\ UNCHANGED <<comp, notq, q, qlog>>

\* The borrowing iterator goes out of scope.
QIterEnd ==
  /\ comp = "queue"
  /\ qit.mode \in {"iter", "iter_mut"}
  /\ qit' = QIdle
  /\ last' = Call("iter_end", None, None)
  /\ UNCHANGED <<comp, notq, q, qlog>>

\* The list, or the IntoIter that owns it, goes out of scope: Drop takes the
\* head link and then walks the chain.
QDrop ==
  /\ comp = "queue"
  /\ qit.mode \in {"list", "into_iter"}
  /\ q' = [q EXCEPT !.head = NULL]
  /\ qit' = QHeld("dropping", q.head, 0)
  /\ last' = Call("drop", None, None)
  /\ UNCHANGED <<comp, notq, qlog>>

QDropStep ==
  /\ comp = "queue"
  /\ qit.mode = "dropping"
  /\ IF qit.cur = NULL
       THEN /\ qit' = QHeld("dropped", NULL, 0)
            /\ UNCHANGED q
       ELSE LET r == queue_drop_step(q, qit.cur)
            IN /\ q' = r.list
               /\ qit' = [qit EXCEPT !.cur = r.cur]
  /\ UNCHANGED <<comp, notq, qlog, last>>

QueueNext ==
  \/ QNew \/ QPush \/ QPop \/ QIntoIter \/ QIntoIterNext
  \/ QIter \/ QIterNext \/ QIterEnd \/ QDrop \/ QDropStep

\* ------------------------------------------------------- second.rs: List
SAddrs == 1..SNodes
SFree == [elem |-> 0, next |-> NULL]

\* List::new
stack_new == [head |-> NULL, node |-> [a \in SAddrs |-> SFree], live |-> {}]

\* A push that links the new node behind the head node instead of in front.
stack_push_behind_head(l, elem) ==
  LET a == Alloc(SAddrs \ l.live)
  IN IF l.head = NULL
       THEN [l EXCEPT !.node[a] = [elem |-> elem, next |-> NULL],
                      !.live = @ \cup {a}, !.head = a]
       ELSE [l EXCEPT !.node[a] = [elem |-> elem, next |-> l.node[l.head].next],
                      !.node[l.head].next = a,
                      !.live = @ \cup {a}]

\* List::push: the new node takes the old head link as its next.
stack_push(l, elem) ==
  LET a == Alloc(SAddrs \ l.live)
  IN [l EXCEPT !.node[a] = [elem |-> elem, next |-> l.head],
               !.live = @ \cup {a},
               !.head = a]

\* List::pop
stack_pop(l) ==
  IF l.head = NULL
    THEN [list |-> l, ret |-> None]
    ELSE [list |-> [l EXCEPT !.head = l.node[l.head].next,
                             !.node[l.head] = SFree,
                             !.live = @ \ {l.head}],
          ret |-> Some(l.node[l.head].elem)]

\* List::peek
stack_peek(l) == IF l.head = NULL THEN None ELSE Some(l.node[l.head].elem)

\* List::iter
stack_iter(l) == l.head

\* Iter::next
stack_iter_next(l, cur) ==
  IF cur = NULL
    THEN [cur |-> NULL, ret |-> None]
    ELSE [cur |-> l.node[cur].next, ret |-> Some(l.node[cur].elem)]

\* Drop for List, one turn of the loop.
stack_drop_step(l, cur) ==
  [list |-> [l EXCEPT !.node[cur] = SFree, !.live = @ \ {cur}],
   cur |-> l.node[cur].next]

\* abs is the stack the caller expects: what it pushed and has not got back,
\* the latest first.  pure says that no push followed a pop so far.
SLogEmpty == [abs |-> <<>>, pushed |-> <<>>, popped |-> <<>>, pure |-> TRUE]

SLogPop(log, ret) ==
  IF ret = None
    THEN log
    ELSE [log EXCEPT !.abs = IF @ = <<>> THEN @ ELSE Tail(@),
                     !.popped = @ \o ret]

SNew ==
  /\ comp = "stack"
  /\ sit.mode = "dropped"
  /\ s' = stack_new
  /\ sit' = QIdle
  /\ slog' = SLogEmpty
  /\ last' = Call("new", None, None)
  /\ UNCHANGED <<comp, nots>>

SPush ==
  /\ comp = "stack"
  /\ sit.mode = "list"
  /\ Len(slog.pushed) < MaxStackPushes
  /\ s.live # SAddrs
  /\ \E elem \in Elems :
       /\ s' = stack_push(s, elem)
       /\ slog' = [slog EXCEPT !.abs = <<elem>> \o @,
                               !.pushed = Append(@, elem),
                               !.pure = @ /\ slog.popped = <<>>]
       /\ last' = Call("push", Some(elem), None)
  /\ UNCHANGED <<comp, nots, sit>>

SPop ==
  /\ comp = "stack"
  /\ sit.mode = "list"
  /\ LET r == stack_pop(s)
     IN /\ s' = r.list
        /\ slog' = SLogPop(slog, r.ret)
        /\ last' = Call("pop", None, r.ret)
  /\ UNCHANGED <<comp, nots, sit>>

SPeek ==
  /\ comp = "stack"
  /\ sit.mode = "list"
  /\ last' = Call("peek", None, stack_peek(s))
  /\ UNCHANGED <<comp, nots, svars>>

SIntoIter ==
  /\ comp = "stack"
  /\ sit.mode = "list"
  /\ sit' = QHeld("into_iter", NULL, 0)
  /\ last' = Call("into_iter", None, None)
  /\ UNCHANGED <<comp, nots, s, slog>>

\* IntoIter::next is List::pop.
SIntoIterNext ==
  /\ comp = "stack"
  /\ sit.mode = "into_iter"
  /\ LET r == stack_pop(s)
     IN /\ s' = r.list
        /\ slog' = SLogPop(slog, r.ret)
        /\ sit' = [sit EXCEPT !.nones = Exhaust(@, r.ret)]
        /\ last' = Call("next", None, r.ret)
  /\ UNCHANGED <<comp, nots>>

SIter ==
  /\ comp = "stack"
  /\ sit.mode = "list"
  /\ sit' = QHeld("iter", stack_iter(s), 0)
  /\ last' = Call("iter", None, None)
  /\ UNCHANGED <<comp, nots, s, slog>>

SIterNext ==
  /\ comp = "stack"
  /\ sit.mode = "iter"
  /\ LET r == stack_iter_next(s, sit.cur)
     IN /\ sit' = [sit EXCEPT !.cur = r.cur, !.nones = Exhaust(@, r.ret)]
        /\ last' = Call("next", None, r.ret)
  /\ UNCHANGED <<comp, nots, s, slog>>

SIterEnd ==
  /\ comp = "stack"
  /\ sit.mode = "iter"
  /\ sit' = QIdle
  /\ last' = Call("iter_end", None, None)
  /\ UNCHANGED <<comp, nots, s, slog>>

SDrop ==
  /\ comp = "stack"
  /\ sit.mode \in {"list", "into_iter"}
  /\ s' = [s EXCEPT !.head = NULL]
  /\ sit' = QHeld("dropping", s.head, 0)
  /\ last' = Call("drop", None, None)
  /\ UNCHANGED <<comp, nots, slog>>

SDropStep ==
  /\ comp = "stack"
  /\ sit.mode = "dropping"
  /\ IF sit.cur = NULL
       THEN /\ sit' = QHeld("dropped", NULL, 0)
            /\ UNCHANGED s
       ELSE LET r == stack_drop_step(s, sit.cur)
            IN /\ s' = r.list
               /\ sit' = [sit EXCEPT !.cur = r.cur]
  /\ UNCHANGED <<comp, nots, slog, last>>

StackNext ==
  \/ SNew \/ SPush \/ SPop \/ SPeek \/ SIntoIter \/ SIntoIterNext
  \/ SIter \/ SIterNext \/ SIterEnd \/ SDrop \/ SDropStep

\* -------------------------------------------------------- third.rs: List
PAddrs == 1..PNodes
PIds == 1..PLists
PFree == [elem |-> 0, next |-> NULL]

\* A List value: st is "none" while the slot holds no list, "live" for a list
\* the caller holds, "drop" while Drop runs on it; cur is Drop's local head.
PList(st, head, cur) == [st |-> st, head |-> head, cur |-> cur]
PNoList == PList("none", NULL, NULL)

\* The heap of Arc<Node>: rc is the strong count, 0 for memory that holds no
\* node.  lists[1] is List::new().
plist_new ==
  [node |-> [a \in PAddrs |-> PFree],
   rc |-> [a \in PAddrs |-> 0],
   lists |-> [l \in PIds |-> IF l = 1 THEN PList("live", NULL, NULL) ELSE PNoList]]

PLive(h) == {a \in PAddrs : h.rc[a] > 0}

\* A clone that leaves the strong count as it is.
ArcCloneUncounted(rc, a) == rc

\* Link::clone: one more strong reference to the node, if there is one.
ArcClone(rc, a) == IF a = NULL THEN rc ELSE [rc EXCEPT ![a] = @ + 1]

\* Dropping one Arc<Node>: the count goes down, and the node whose count
\* reaches zero is freed together with its own next link.
RECURSIVE ArcDrop(_, _)
ArcDrop(h, a) ==
  IF a = NULL
    THEN h
    ELSE IF h.rc[a] > 1
      THEN [h EXCEPT !.rc[a] = @ - 1]
      ELSE ArcDrop([h EXCEPT !.rc[a] = 0, !.node[a] = PFree], h.node[a].next)

\* An append that stores the element in the list's own head node when there
\* is one, instead of in a fresh node.
plist_append_in_place(h, l, elem, k) ==
  LET hd == h.lists[l].head
  IN IF hd = NULL
       THEN LET a == Alloc(PAddrs \ PLive(h))
            IN [h EXCEPT !.node[a] = [elem |-> elem, next |-> NULL],
                         !.rc[a] = 1,
                         !.lists[k] = PList("live", a, NULL)]
       ELSE [h EXCEPT !.node[hd].elem = elem,
                      !.rc = ArcClone(h.rc, hd),
                      !.lists[k] = PList("live", hd, NULL)]

\* List::append: list k is the result, a fresh node in front of l's nodes.
plist_append(h, l, elem, k) ==
  LET hd == h.lists[l].head
      a == Alloc(PAddrs \ PLive(h))
  IN [h EXCEPT !.rc = [ArcClone(h.rc, hd) EXCEPT ![a] = 1],
               !.node[a] = [elem |-> elem, next |-> hd],
               !.lists[k] = PList("live", a, NULL)]

\* A tail that moves the head node's next link into the result instead of
\* cloning it.
plist_tail_take(h, l, k) ==
  LET hd == h.lists[l].head
      nx == IF hd = NULL THEN NULL ELSE h.node[hd].next
  IN IF hd = NULL
       THEN [h EXCEPT !.lists[k] = PList("live", NULL, NULL)]
       ELSE [h EXCEPT !.node[hd].next = NULL,
                      !.lists[k] = PList("live", nx, NULL)]

\* A tail that returns the list itself.
plist_tail_same(h, l, k) ==
  [h EXCEPT !.rc = ArcClone(h.rc, h.lists[l].head),
            !.lists[k] = PList("live", h.lists[l].head, NULL)]

\* List::tail: list k is the result.
plist_tail(h, l, k) ==
  LET hd == h.lists[l].head
      nx == IF hd = NULL THEN NULL ELSE h.node[hd].next
  IN [h EXCEPT !.rc = ArcClone(h.rc, nx),
               !.lists[k] = PList("live", nx, NULL)]

\* List::head
plist_head(h, l) ==
  IF h.lists[l].head = NULL THEN None ELSE Some(h.node[h.lists[l].head].elem)

\* List::iter
plist_iter(h, l) == h.lists[l].head

\* A next that moves past two nodes.
plist_iter_next_skip(h, cur) ==
  IF cur = NULL
    THEN [cur |-> NULL, ret |-> None]
    ELSE [cur |-> IF h.node[cur].next = NULL
                    THEN NULL ELSE h.node[h.node[cur].next].next,
          ret |-> Some(h.node[cur].elem)]

\* Iter::next
plist_iter_next(h, cur) ==
  IF cur = NULL
    THEN [cur |-> NULL, ret |-> None]
    ELSE [cur |-> h.node[cur].next, ret |-> Some(h.node[cur].elem)]

\* Drop for List, up to the loop: head.take().
plist_drop(h, l) ==
  [h EXCEPT !.lists[l] = PList("drop", NULL, h.lists[l].head)]

\* A Drop whose loop frees every node it comes to, shared or not.
plist_drop_step_through(h, l) ==
  LET c == h.lists[l].cur
  IN IF c = NULL
       THEN [h EXCEPT !.lists[l] = PNoList]
       ELSE [h EXCEPT !.rc[c] = 0,
                      !.node[c] = PFree,
                      !.lists[l] = PList("drop", NULL, h.node[c].next)]

\* Drop for List, one turn of the loop.  Arc::try_unwrap succeeds on the last
\* reference: the node's next is taken and the node freed.  Otherwise the
\* reference is given back and the loop ends.  The loop also ends on None.
plist_drop_step(h, l) ==
  LET c == h.lists[l].cur
  IN IF c = NULL
       THEN [h EXCEPT !.lists[l] = PNoList]
       ELSE IF h.rc[c] = 1
         THEN ArcDrop([h EXCEPT !.node[c].next = NULL,
                                !.lists[l] = PList("drop", NULL, h.node[c].next)],
                      c)
         ELSE [ArcDrop(h, c) EXCEPT !.lists[l] = PNoList]

\* The iterator in use, over list l (0: none).  out is what next() has returned
\* so far; seen is what an earlier iterator over the same list returned up to
\* its first None, if one got there.
PIter(l, cur, nones) ==
  [list |-> l, cur |-> cur, nones |-> nones, out |-> <<>>, seen |-> None]
PNoIter == PIter(0, NULL, 0)

PCalling == comp = "plist" /\ \A l \in PIds : p.lists[l].st # "drop"
PHeld == {l \in PIds : p.lists[l].st = "live"}
PSlots == {l \in PIds : p.lists[l].st = "none"}
\* The slot of a new list value: which one is free does not matter.
PSlot == Alloc(PSlots)

PNew ==
  /\ PCalling
  /\ PSlots # {}
  /\ p' = [p EXCEPT !.lists[PSlot] = PList("live", NULL, NULL)]
  /\ last' = Call("new", None, Some(PSlot))
  /\ UNCHANGED <<comp, notp, pit>>

PAppend ==
  /\ PCalling
  /\ PLive(p) # PAddrs
  /\ PSlots # {}
  /\ \E l \in PHeld, elem \in Elems :
       /\ p' = plist_append(p, l, elem, PSlot)
       /\ last' = Call("append", <<l, elem>>, Some(PSlot))
  /\ UNCHANGED <<comp, notp, pit>>

PTail ==
  /\ PCalling
  /\ PSlots # {}
  /\ \E l \in PHeld :
       /\ p' = plist_tail(p, l, PSlot)
       /\ last' = Call("tail", <<l>>, Some(PSlot))
  /\ UNCHANGED <<comp, notp, pit>>

PHead ==
  /\ PCalling
  /\ \E l \in PHeld : last' = Call("head", <<l>>, plist_head(p, l))
  /\ UNCHANGED <<comp, notp, pvars>>

\* A fresh iterator, in place of the one in use if there is one.
PIterNew ==
  /\ PCalling
  /\ \E l \in PHeld :
       /\ pit' = [PIter(l, plist_iter(p, l), 0) EXCEPT
                    !.seen = IF l = pit.list THEN pit.seen ELSE None]
       /\ last' = Call("iter", <<l>>, None)
  /\ UNCHANGED <<comp, notp, p>>

PIterNext ==
  /\ PCalling
  /\ pit.list # 0
  /\ LET r == plist_iter_next(p, pit.cur)
     IN /\ pit' = [pit EXCEPT !.cur = r.cur, !.nones = Exhaust(@, r.ret),
                           !.out = @ \o r.ret,
                           !.seen =
                             IF r.ret = None /\ pit.seen = None
                               THEN Some(pit.out) ELSE @]
        /\ last' = Call("next", None, r.ret)
  /\ UNCHANGED <<comp, notp, p>>

PIterEnd ==
  /\ PCalling
  /\ pit.list # 0
  /\ pit' = PNoIter
  /\ last' = Call("iter_end", None, None)
  /\ UNCHANGED <<comp, notp, p>>

\* A list goes out of scope; a list that an iterator borrows cannot.
PDrop ==
  /\ PCalling
  /\ \E l \in PHeld \ {pit.list} :
       /\ p' = plist_drop(p, l)
       /\ last' = Call("drop", <<l>>, None)
  /\ UNCHANGED <<comp, notp, pit>>

PDropStep ==
  /\ comp = "plist"
  /\ \E l \in PIds :
       /\ p.lists[l].st = "drop"
       /\ p' = plist_drop_step(p, l)
  /\ UNCHANGED <<comp, notp, pit, last>>

PListNext ==
  \/ PNew \/ PAppend \/ PTail \/ PHead
  \/ PIterNew \/ PIterNext \/ PIterEnd \/ PDrop \/ PDropStep

\* ------------------------------------------------------- fourth.rs: List
DAddrs == 1..DNodes
DFree == [elem |-> 0, next |-> NULL, prev |-> NULL]

\* List::new.  rc is the strong count of each Rc<RefCell<Node>>, 0 for memory
\* that holds no node.  borrow is each RefCell's flag: 0 unused, n > 0 for n
\* Ref alive, -1 for a RefMut alive.  panic says that a call has panicked,
\* unwrap that it did so in the unwrap after Rc::try_unwrap and not at a
\* borrow of a cell.
deque_new ==
  [head |-> NULL, tail |-> NULL,
   node |-> [a \in DAddrs |-> DFree],
   rc |-> [a \in DAddrs |-> 0],
   borrow |-> [a \in DAddrs |-> 0],
   panic |-> FALSE, unwrap |-> FALSE]

DLive(l) == {a \in DAddrs : l.rc[a] > 0}

\* Dropping one Rc<RefCell<Node>>: the count goes down, and the node whose
\* count reaches zero is freed together with its own next and prev links.
RECURSIVE RcDrop(_, _)
RcDrop(l, a) ==
  IF a = NULL \/ l.rc[a] = 0
    THEN l
    ELSE IF l.rc[a] > 1
      THEN [l EXCEPT !.rc[a] = @ - 1]
      ELSE RcDrop(RcDrop([l EXCEPT !.rc[a] = 0, !.node[a] = DFree,
                                   !.borrow[a] = 0],
                         l.node[a].next),
                  l.node[a].prev)

\* A call that panics: the stack unwinds and nothing is returned.
DPanic(l) == [list |-> [l EXCEPT !.panic = TRUE], ret |-> None]
DReturn(l, ret) == [list |-> l, ret |-> ret]

\* Node::new at the lowest free address; the caller's local holds it.
DNodeNew(l, elem) ==
  LET a == Alloc(DAddrs \ DLive(l))
  IN [l EXCEPT !.node[a] = [elem |-> elem, next |-> NULL, prev |-> NULL],
               !.rc[a] = 1]

\* A push_front that sets only head when the list is empty.
deque_push_front_no_tail(l, elem) ==
  LET a == Alloc(DAddrs \ DLive(l))
      l0 == DNodeNew(l, elem)
      old == l.head
  IN IF old # NULL
       THEN LET l1 == [l0 EXCEPT !.head = NULL]
            IN IF l.borrow[old] # 0
                 THEN DPanic(RcDrop(RcDrop(l1, old), a))
                 ELSE LET l2 == [l1 EXCEPT !.node[old].prev = a, !.rc[a] = 2]
                          l3 == RcDrop(l2, l1.node[old].prev)
                      IN DReturn([l3 EXCEPT !.node[a].next = old, !.head = a],
                                 None)
       ELSE DReturn([l0 EXCEPT !.head = a], None)

\* List::push_front
deque_push_front(l, elem) ==
  LET a == Alloc(DAddrs \ DLive(l))
      l0 == DNodeNew(l, elem)
      old == l.head
  IN IF old # NULL
       THEN LET l1 == [l0 EXCEPT !.head = NULL]
            IN IF l.borrow[old] # 0
                 THEN DPanic(RcDrop(RcDrop(l1, old), a))
                 ELSE LET l2 == [l1 EXCEPT !.node[old].prev = a, !.rc[a] = 2]
                          l3 == RcDrop(l2, l1.node[old].prev)
                      IN DReturn([l3 EXCEPT !.node[a].next = old, !.head = a],
                                 None)
       ELSE LET l1 == [l0 EXCEPT !.tail = a, !.rc[a] = 2]
                l2 == RcDrop(l1, l0.tail)
            IN DReturn([l2 EXCEPT !.head = a], None)

\* A push_back that leaves the new node's prev empty.
deque_push_back_no_prev(l, elem) ==
  LET a == Alloc(DAddrs \ DLive(l))
      l0 == DNodeNew(l, elem)
      old == l.tail
  IN IF old # NULL
       THEN DReturn(RcDrop([l0 EXCEPT !.node[old].next = a, !.rc[a] = 2,
                                      !.tail = a], old),
                    None)
       ELSE DReturn([l0 EXCEPT !.tail = a, !.head = a, !.rc[a] = 2], None)

\* A push_back that links the old tail to itself instead of to the new node.
deque_push_back_self_next(l, elem) ==
  LET a == Alloc(DAddrs \ DLive(l))
      l0 == DNodeNew(l, elem)
      old == l.tail
  IN IF old # NULL
       THEN LET l1 == [l0 EXCEPT !.tail = NULL]
            IN IF l.borrow[old] # 0
                 THEN DPanic(RcDrop(RcDrop(l1, old), a))
                 ELSE LET l2 == [l1 EXCEPT !.node[old].next = old,
                                           !.rc[old] = @ + 1]
                          l3 == RcDrop(l2, l1.node[old].next)
                      IN DReturn([l3 EXCEPT !.node[a].prev = old, !.tail = a],
                                 None)
       ELSE LET l1 == [l0 EXCEPT !.tail = a, !.rc[a] = 2]
                l2 == RcDrop(l1, l0.tail)
            IN DReturn([l2 EXCEPT !.head = a], None)

\* List::push_back
deque_push_back(l, elem) ==
  LET a == Alloc(DAddrs \ DLive(l))
      l0 == DNodeNew(l, elem)
      old == l.tail
  IN IF old # NULL
       THEN LET l1 == [l0 EXCEPT !.tail = NULL]
            IN IF l.borrow[old] # 0
                 THEN DPanic(RcDrop(RcDrop(l1, old), a))
                 ELSE LET l2 == [l1 EXCEPT !.node[old].next = a, !.rc[a] = 2]
                          l3 == RcDrop(l2, l1.node[old].next)
                      IN DReturn([l3 EXCEPT !.node[a].prev = old, !.tail = a],
                                 None)
       ELSE LET l1 == [l0 EXCEPT !.tail = a, !.rc[a] = 2]
                l2 == RcDrop(l1, l0.tail)
            IN DReturn([l2 EXCEPT !.head = a], None)

\* Rc::try_unwrap(old).ok().unwrap().into_inner().elem: with one reference
\* left the node is moved out and freed and its element returned; with more
\* the reference is dropped and unwrap panics.
DUnwrap(l, old) ==
  IF l.rc[old] = 1
    THEN DReturn(RcDrop(l, old), Some(l.node[old].elem))
    ELSE DPanic([RcDrop(l, old) EXCEPT !.unwrap = TRUE])

\* A pop_front that leaves the new head's prev link in place.
deque_pop_front_keep_prev(l) ==
  LET old == l.head
  IN IF old = NULL
       THEN DReturn(l, None)
       ELSE LET l0 == [l EXCEPT !.head = NULL]
            IN IF l.borrow[old] # 0
                 THEN DPanic(RcDrop(l0, old))
                 ELSE LET nh == l.node[old].next
                          l1 == [l0 EXCEPT !.node[old].next = NULL]
                      IN IF nh # NULL
                           THEN IF nh = old \/ l.borrow[nh] # 0
                                  THEN DPanic(RcDrop(RcDrop(l1, nh), old))
                                  ELSE DUnwrap([l1 EXCEPT !.head = nh], old)
                           ELSE DUnwrap(RcDrop([l1 EXCEPT !.tail = NULL], l1.tail),
                                        old)

\* List::pop_front.  The RefMut of old_head is held across the match.
deque_pop_front(l) ==
  LET old == l.head
  IN IF old = NULL
       THEN DReturn(l, None)
       ELSE LET l0 == [l EXCEPT !.head = NULL]
            IN IF l.borrow[old] # 0
                 THEN DPanic(RcDrop(l0, old))
                 ELSE LET nh == l.node[old].next
                          l1 == [l0 EXCEPT !.node[old].next = NULL]
                      IN IF nh # NULL
                           THEN IF nh = old \/ l.borrow[nh] # 0
                                  THEN DPanic(RcDrop(RcDrop(l1, nh), old))
                                  ELSE LET l2 == [l1 EXCEPT !.node[nh].prev = NULL]
                                           l3 == RcDrop(l2, l1.node[nh].prev)
                                       IN DUnwrap([l3 EXCEPT !.head = nh], old)
                           ELSE DUnwrap(RcDrop([l1 EXCEPT !.tail = NULL], l1.tail),
                                        old)

\* A pop_back that pops at the front.
deque_pop_back_at_front(l) == deque_pop_front(l)

\* List::pop_back
deque_pop_back(l) ==
  LET old == l.tail
  IN IF old = NULL
       THEN DReturn(l, None)
       ELSE LET l0 == [l EXCEPT !.tail = NULL]
            IN IF l.borrow[old] # 0
                 THEN DPanic(RcDrop(l0, old))
                 ELSE LET nt == l.node[old].prev
                          l1 == [l0 EXCEPT !.node[old].prev = NULL]
                      IN IF nt # NULL
                           THEN IF nt = old \/ l.borrow[nt] # 0
                                  THEN DPanic(RcDrop(RcDrop(l1, nt), old))
                                  ELSE LET l2 == [l1 EXCEPT !.node[nt].next = NULL]
                                           l3 == RcDrop(l2, l1.node[nt].next)
                                       IN DUnwrap([l3 EXCEPT !.tail = nt], old)
                           ELSE DUnwrap(RcDrop([l1 EXCEPT !.head = NULL], l1.head),
                                        old)

\* RefCell::borrow on node a, the view kept by the caller: it panics while a
\* RefMut of the cell is alive.
DBorrow(l, a) ==
  IF l.borrow[a] < 0
    THEN DPanic(l)
    ELSE DReturn([l EXCEPT !.borrow[a] = @ + 1], Some(l.node[a].elem))

\* A borrow_mut that only looks for another RefMut.
DBorrowMutOverRefs(l, a) ==
  IF l.borrow[a] < 0
    THEN DPanic(l)
    ELSE DReturn([l EXCEPT !.borrow[a] = -1], Some(l.node[a].elem))

\* RefCell::borrow_mut on node a, the view kept by the caller: it panics
\* while any Ref or RefMut of the cell is alive.
DBorrowMut(l, a) ==
  IF l.borrow[a] # 0
    THEN DPanic(l)
    ELSE DReturn([l EXCEPT !.borrow[a] = -1], Some(l.node[a].elem))

\* List::peek_front
deque_peek_front(l) ==
  IF l.head = NULL THEN DReturn(l, None) ELSE DBorrow(l, l.head)

\* List::peek_front_mut
deque_peek_front_mut(l) ==
  IF l.head = NULL THEN DReturn(l, None) ELSE DBorrowMut(l, l.head)

\* A peek_back that views the head node.
deque_peek_back_at_head(l) == deque_peek_front(l)

\* List::peek_back
deque_peek_back(l) ==
  IF l.tail = NULL THEN DReturn(l, None) ELSE DBorrow(l, l.tail)

\* A peek_back_mut that unwraps the tail link.
deque_peek_back_mut_unwrap(l) ==
  IF l.tail = NULL THEN DPanic(l) ELSE DBorrowMut(l, l.tail)

\* List::peek_back_mut
deque_peek_back_mut(l) ==
  IF l.tail = NULL THEN DReturn(l, None) ELSE DBorrowMut(l, l.tail)

\* A Ref or a RefMut goes out of scope: the cell's flag steps back to unused.
DRelease(l, a) ==
  [l EXCEPT !.borrow[a] = IF @ > 0 THEN @ - 1 ELSE 0]

Abs(n) == IF n < 0 THEN -n ELSE n

RECURSIVE SumOver(_, _)
SumOver(f, S) ==
  IF S = {} THEN 0
  ELSE LET a == Alloc(S) IN f[a] + SumOver(f, S \ {a})

\* The views alive.
DViewCount(l) == SumOver([a \in DAddrs |-> Abs(l.borrow[a])], DAddrs)

\* Who holds the deque: mode "list" is the caller, between calls.  For Drop, n
\* is the number of elements and views the number of cells still borrowed
\* when it began, pops the number of pop_front calls that returned an element.
DIdle == [mode |-> "list", n |-> 0, pops |-> 0, views |-> 0]
DCalling == comp = "deque" /\ dit.mode = "list" /\ ~d.panic

DNew ==
  /\ comp = "deque"
  /\ dit.mode = "dropped"
  /\ d' = deque_new
  /\ dit' = DIdle
  /\ last' = Call("new", None, None)
  /\ UNCHANGED <<comp, notd>>

DPushFront ==
  /\ DCalling
  /\ DLive(d) # DAddrs
  /\ \E elem \in Elems :
       LET r == deque_push_front(d, elem)
       IN /\ d' = r.list
          /\ last' = Call("push_front", Some(elem), r.ret)
  /\ UNCHANGED <<comp, notd, dit>>

DPushBack ==
  /\ DCalling
  /\ DLive(d) # DAddrs
  /\ \E elem \in Elems :
       LET r == deque_push_back(d, elem)
       IN /\ d' = r.list
          /\ last' = Call("push_back", Some(elem), r.ret)
  /\ UNCHANGED <<comp, notd, dit>>

DPopFront ==
  /\ DCalling
  /\ LET r == deque_pop_front(d)
     IN /\ d' = r.list
        /\ last' = Call("pop_front", None, r.ret)
  /\ UNCHANGED <<comp, notd, dit>>

DPopBack ==
  /\ DCalling
  /\ LET r == deque_pop_back(d)
     IN /\ d' = r.list
        /\ last' = Call("pop_back", None, r.ret)
  /\ UNCHANGED <<comp, notd, dit>>

\* A peek that hands out a view needs room for one more view.
DPeekTo(op, r) ==
  /\ r.list.panic \/ r.list = d \/ DViewCount(d) < DViews
  /\ d' = r.list
  /\ last' = Call(op, None, r.ret)
  /\ UNCHANGED <<comp, notd, dit>>

DPeekFront == DCalling /\ DPeekTo("peek_front", deque_peek_front(d))

DPeekFrontMut == DCalling /\ DPeekTo("peek_front_mut", deque_peek_front_mut(d))

DPeekBack == DCalling /\ DPeekTo("peek_back", deque_peek_back(d))

DPeekBackMut == DCalling /\ DPeekTo("peek_back_mut", deque_peek_back_mut(d))

\* The caller lets go of one view of node a.
DViewEnd ==
  /\ DCalling
  /\ \E a \in DAddrs :
       /\ d.borrow[a] # 0
       /\ d' = DRelease(d, a)
       /\ last' = Call("view_end", Some(a), None)
  /\ UNCHANGED <<comp, notd, dit>>

\* The list goes out of scope: Drop pops from the front until None.  A Ref or
\* RefMut borrows the list, so what is still counted in borrow here are guards
\* the caller leaked (mem::forget), whose cells stay borrowed.
DDrop ==
  /\ DCalling
  /\ dit' = [mode |-> "dropping", n |-> Cardinality(DLive(d)), pops |-> 0,
             views |-> DViewCount(d)]
  /\ last' = Call("drop", None, None)
  /\ UNCHANGED <<comp, notd, d>>

DDropStep ==
  /\ comp = "deque"
  /\ dit.mode = "dropping"
  /\ ~d.panic
  /\ LET r == deque_pop_front(d)
     IN /\ d' = r.list
        /\ dit' = IF r.list.panic
                    THEN dit
                    ELSE IF r.ret = None
                      THEN [dit EXCEPT !.mode = "dropped"]
                      ELSE [dit EXCEPT !.pops = @ + 1]
  /\ UNCHANGED <<comp, notd, last>>

DequeNext ==
  \/ DNew \/ DPushFront \/ DPushBack \/ DPopFront \/ DPopBack
  \/ DPeekFront \/ DPeekFrontMut \/ DPeekBack \/ DPeekBackMut
  \/ DViewEnd \/ DDrop \/ DDropStep

\* ------------------------------------ third.rs: Drop on two threads
\* List<T> is Send, so two lists that share nodes can be moved to two threads
\* and go out of scope there.  What the threads share are the strong counts,
\* which Arc reads and writes with one atomic instruction each.
CAddrs == 1..(MaxShared + 2 * MaxOwn)
Threads == {1, 2}
\* The lists: 1 and 2 are dropped by the thread of that number, 3 stays with
\* the main thread and is not dropped.
CLists == {1, 2, 3}

\* A thread in Drop: pc is "start" before Drop, "loop" at the head of the
\* while, "own" with the node try_unwrap has moved out, "err" with the Arc
\* try_unwrap has given back, "done" after Drop.  cur is Drop's local head,
\* or the Arc being released.
CThread(pc, cur, own) == [pc |-> pc, cur |-> cur, own |-> own]

\* No list: the state of this part while another list is exercised.
CIdle ==
  [node |-> [a \in CAddrs |-> PFree],
   made |-> [a \in CAddrs |-> PFree],
   rc |-> [a \in CAddrs |-> 0],
   alloc |-> {},
   frees |-> [a \in CAddrs |-> 0],
   ub |-> FALSE,
   head |-> [l \in CLists |-> NULL],
   th |-> [t \in Threads |-> CThread("done", NULL, PFree)]]

\* What append and tail build: k nodes that lists 1, 2 and 3 share (node 1 is
\* the last), i nodes in front of them for list 1 and j for list 2; list 3
\* starts at shared node keep, or is empty.  Each strong count is the number
\* of list heads and of next links that point to the node.
CShape(k, i, j, keep) ==
  LET used == 1..(k + i + j)
      nextOf(a) == IF a = k + i + 1 THEN k ELSE a - 1
      node == [a \in CAddrs |->
                 IF a \in used
                   THEN [elem |-> (a % 2) + 1, next |-> nextOf(a)]
                   ELSE PFree]
      head == [l \in CLists |->
                 CASE l = 1 -> k + i
                   [] l = 2 -> IF j = 0 THEN k ELSE k + i + j
                   [] OTHER -> keep]
  IN [node |-> node,
      made |-> node,
      rc |-> [a \in CAddrs |->
                Cardinality({l \in CLists : head[l] = a /\ a \in used})
                  + Cardinality({b \in used : node[b].next = a})],
      alloc |-> used,
      frees |-> [a \in CAddrs |-> 0],
      ub |-> FALSE,
      head |-> head,
      th |-> [t \in Threads |-> CThread("start", NULL, PFree)]]

\* Drop for List, line 65: head = self.head.take().
drop_take(h, t) ==
  [h EXCEPT !.head[t] = NULL,
            !.th[t] = CThread("loop", h.head[t], PFree)]

\* A try_unwrap that takes the node whatever its count is.
drop_try_unwrap_shared(h, t, one) ==
  LET a == h.th[t].cur
  IN IF a = NULL
       THEN [h EXCEPT !.th[t] = CThread("done", NULL, PFree)]
       ELSE [h EXCEPT !.rc[a] = 0,
                      !.alloc = @ \ {a},
                      !.frees[a] = @ + 1,
                      !.ub = @ \/ a \notin h.alloc,
                      !.th[t] = CThread("own", NULL, h.node[a])]

\* Drop for List, lines 66-69: the loop ends on None; Arc::try_unwrap sets
\* the count from 1 to 0 in one compare-and-swap, and then moves the node out
\* and frees its memory, or gives the Arc back.  one says that the swap found
\* the count 1.
drop_try_unwrap(h, t, one) ==
  LET a == h.th[t].cur
  IN IF a = NULL
       THEN [h EXCEPT !.th[t] = CThread("done", NULL, PFree)]
       ELSE IF one
         THEN [h EXCEPT !.rc[a] = 0,
                        !.alloc = @ \ {a},
                        !.frees[a] = @ + 1,
                        !.ub = @ \/ a \notin h.alloc,
                        !.th[t] = CThread("own", NULL, h.node[a])]
         ELSE [h EXCEPT !.ub = @ \/ a \notin h.alloc,
                        !.th[t] = CThread("err", a, PFree)]

\* Drop for List, line 70: head = node.next.take(); the node, which has no
\* next now, is dropped at the end of the block.
drop_next(h, t) ==
  [h EXCEPT !.th[t] = CThread("loop", h.th[t].own.next, PFree)]

\* Drop for List, lines 71-73: break, and the Arc that try_unwrap gave back is
\* dropped.  Arc::drop takes one off the count in one fetch-and-subtract; the
\* thread that took it from 1 to 0 drops the node, and so the Arc in its next,
\* and frees the memory.  one says that the count was 1.
drop_release(h, t, one) ==
  LET a == h.th[t].cur
      h1 == [h EXCEPT !.rc[a] = IF @ > 0 THEN @ - 1 ELSE 0,
                      !.ub = @ \/ a \notin h.alloc]
  IN IF ~one
       THEN [h1 EXCEPT !.th[t] = CThread("done", NULL, PFree)]
       ELSE [h1 EXCEPT !.alloc = @ \ {a},
                       !.frees[a] = @ + 1,
                       !.th[t] = IF h.node[a].next = NULL
                                   THEN CThread("done", NULL, PFree)
                                   ELSE CThread("err", h.node[a].next, PFree)]

\* What an atomic instruction of a thread finds on the count of node a.  On
\* memory that is freed already the read is undefined: it may find anything.
CountIsOne(h, a) ==
  IF a = NULL \/ a \in h.alloc THEN {a # NULL /\ h.rc[a] = 1} ELSE BOOLEAN

TStart(t) ==
  /\ comp = "threads"
  /\ arcs.th[t].pc = "start"
  /\ arcs' = drop_take(arcs, t)
  /\ UNCHANGED <<comp, notc>>

TTryUnwrap(t) ==
  /\ comp = "threads"
  /\ arcs.th[t].pc = "loop"
  /\ \E one \in CountIsOne(arcs, arcs.th[t].cur) : arcs' = drop_try_unwrap(arcs, t, one)
  /\ UNCHANGED <<comp, notc>>

TNext(t) ==
  /\ comp = "threads"
  /\ arcs.th[t].pc = "own"
  /\ arcs' = drop_next(arcs, t)
  /\ UNCHANGED <<comp, notc>>

TRelease(t) ==
  /\ comp = "threads"
  /\ arcs.th[t].pc = "err"
  /\ \E one \in CountIsOne(arcs, arcs.th[t].cur) : arcs' = drop_release(arcs, t, one)
  /\ UNCHANGED <<comp, notc>>

ThreadsNext ==
  \E t \in Threads : TStart(t) \/ TTryUnwrap(t) \/ TNext(t) \/ TRelease(t)

\* ------------------------------------------------------------------- all
Init ==
  /\ comp \in {"queue", "stack", "plist", "deque", "threads"}
  /\ last = Call("new", None, None)
  /\ q = queue_new
  /\ qit = QIdle
  /\ qlog = QLogEmpty
  /\ s = stack_new
  /\ sit = QIdle
  /\ slog = SLogEmpty
  /\ p = plist_new
  /\ pit = PNoIter
  /\ d = deque_new
  /\ dit = DIdle
  /\ IF comp = "threads"
       THEN \E k \in 0..MaxShared, i \in 0..MaxOwn, j \in 0..MaxOwn :
              \E keep \in 0..k : arcs = CShape(k, i, j, keep)
       ELSE arcs = CIdle

Next == QueueNext \/ StackNext \/ PListNext \/ DequeNext \/ ThreadsNext

Spec == Init /\ [][Next]_vars

\* ------------------------------------------------------------ observers
IsPrefix(u, v) == Len(u) <= Len(v) /\ SubSeq(v, 1, Len(u)) = u

RECURSIVE Reverse(_)
Reverse(u) == IF u = <<>> THEN <<>> ELSE Append(Reverse(Tail(u)), Head(u))

\* The addresses met from a along the links nx, at most fuel of them.
RECURSIVE Walk(_, _, _)
Walk(nx, a, fuel) ==
  IF a = NULL \/ fuel = 0 THEN <<>> ELSE <<a>> \o Walk(nx, nx[a], fuel - 1)

ElemsAt(node, addrs) == [i \in 1..Len(addrs) |-> node[addrs[i]].elem]

\* The queue's chain: the nodes head owns, link by link.
QChain(l) == Walk([a \in QAddrs |-> l.node[a].next], l.head, QNodes + 1)

\* The deque's nodes from head along next, and from tail along prev.
DChain(l) == Walk([a \in DAddrs |-> l.node[a].next], l.head, DNodes + 1)
DChainBack(l) == Walk([a \in DAddrs |-> l.node[a].prev], l.tail, DNodes + 1)
DSeq(l) == ElemsAt(l.node, DChain(l))

\* The elements of the persistent list that starts at node a.
PSeqFrom(h, a) ==
  ElemsAt(h.node, Walk([b \in PAddrs |-> h.node[b].next], a, PNodes + 1))
PSeq(h, l) == PSeqFrom(h, h.lists[l].head)

\* ---------------------------------------------------------------- claims

\* C1: the queue is first in, first out.  What pop and IntoIter::next have
\* returned so far is a prefix of what was pushed, so the k-th value popped is
\* the k-th value pushed, and a pop returns None only when everything pushed
\* has been popped, also after the queue was drained and filled again.
QueueFifo ==
  comp = "queue" =>
    /\ IsPrefix(qlog.popped, qlog.pushed)
    /\ (last.op \in {"pop", "next"} /\ qit.mode \in {"list", "into_iter"}) =>
         /\ last.ret = None => qlog.popped = qlog.pushed
         /\ last.ret # None =>
              last.ret = Some(qlog.pushed[Len(qlog.popped)])

\* The queue was drained twice: a pop emptied it, pushes followed, and pops
\* emptied it again.
QueueFifoWitness ==
  /\ comp = "queue"
  /\ qlog.drains >= 2
  /\ Len(qlog.pushed) >= 3
  /\ last.op = "pop"
  /\ last.ret # None

\* C2: between the public calls of the queue (new, push, pop, next of
\* IntoIter) tail is null when head is empty, and otherwise tail is the last
\* node of the chain head owns, the one whose next is empty; no push has
\* written through a tail that was not an allocated node.
QueueTailInv ==
  (comp = "queue" /\ qit.mode \in {"list", "into_iter", "iter", "iter_mut"}) =>
    /\ ~q.ub
    /\ q.head = NULL => q.tail = NULL
    /\ q.head # NULL =>
         LET c == QChain(q)
         IN /\ Len(c) <= QNodes
            /\ \A i \in 1..Len(c) : c[i] \in q.live
            /\ q.tail = c[Len(c)]
            /\ q.node[q.tail].next = NULL

\* An IntoIter has handed out a value of a queue that was drained and filled
\* again, and two or more nodes are left.
QueueTailWitness ==
  /\ comp = "queue"
  /\ qit.mode = "into_iter"
  /\ last.op = "next"
  /\ last.ret # None
  /\ qlog.drains >= 1
  /\ q.head # NULL
  /\ q.tail # q.head

\* C3: after every push and pop of the deque that returns, next and prev of
\* the nodes mirror each other, head's prev and tail's next are empty.
DequeLinked ==
  (comp = "deque" /\ ~d.panic) =>
    /\ \A a \in DLive(d) :
         /\ d.node[a].next # NULL =>
              d.node[a].next \in DLive(d) /\ d.node[d.node[a].next].prev = a
         /\ d.node[a].prev # NULL =>
              d.node[a].prev \in DLive(d) /\ d.node[d.node[a].prev].next = a
    /\ d.head # NULL => d.head \in DLive(d) /\ d.node[d.head].prev = NULL
    /\ d.tail # NULL => d.tail \in DLive(d) /\ d.node[d.tail].next = NULL

\* A pop_back has taken the third node off a deque, and two linked nodes
\* are left.
DequeLinkedWitness ==
  /\ comp = "deque"
  /\ ~d.panic
  /\ last.op = "pop_back"
  /\ last.ret # None
  /\ Cardinality(DLive(d)) = 2
  /\ d.node[d.head].next = d.tail

\* What one returning call of the deque does to the sequence of its elements.
DequeStep ==
  LET before == DSeq(d)
      after == DSeq(d')
      x == last'.arg[1]
  IN /\ last'.op = "push_front" => after = <<x>> \o before
     /\ last'.op = "push_back" => after = Append(before, x)
     /\ last'.op = "pop_front" =>
          IF before = <<>>
            THEN last'.ret = None /\ after = <<>>
            ELSE last'.ret = Some(Head(before)) /\ after = Tail(before)
     /\ last'.op = "pop_back" =>
          IF before = <<>>
            THEN last'.ret = None /\ after = <<>>
            ELSE /\ last'.ret = Some(before[Len(before)])
                 /\ after = SubSeq(before, 1, Len(before) - 1)
     /\ ElemsAt(d'.node, DChainBack(d')) = Reverse(after)

\* C4: the deque is a double-ended sequence.  push_front puts the element in
\* front, push_back at the end, pop_front removes and returns the first
\* element, pop_back the last, and they return None on the empty sequence;
\* read from tail along prev the sequence is the same, reversed.
DequeSequence ==
  [][(comp = "deque" /\ ~d.panic /\ ~d'.panic) => DequeStep]_vars

\* pop_back has returned an element that push_front had put in, from under
\* two other elements.
DequeSequenceWitness ==
  /\ comp = "deque"
  /\ ~d.panic
  /\ last.op = "pop_back"
  /\ last.ret = Some(1)
  /\ DSeq(d) = <<2, 2>>

\* What append of elem to list l1, giving list l2, does to the heap.
PAppendStep(l1, elem, l2) ==
  /\ PSeq(p', l2) = <<elem>> \o PSeq(p, l1)
  /\ plist_head(p', l2) = Some(elem)
  /\ PSeq(plist_tail(p', l2, l2), l2) = PSeq(p, l1)
  /\ p'.lists[l1] = p.lists[l1]
  /\ PSeq(p', l1) = PSeq(p, l1)
  /\ \A a \in PLive(p) : p'.node[a] = p.node[a]
  /\ PLive(p) \subseteq PLive(p')
  /\ Cardinality(PLive(p') \ PLive(p)) = 1
  /\ p'.lists[l2].head \notin PLive(p)
  /\ p'.node[p'.lists[l2].head].next = p.lists[l1].head

\* C5: append does not touch the list it is called on.  The new list starts
\* with the element and goes on with the elements of the old list; the old
\* list and every node that existed keep their content; one node is
\* allocated, and its next is the old list's head node itself.
PAppendFrame ==
  [][(comp = "plist" /\ last'.op = "append") =>
       PAppendStep(last'.arg[1], last'.arg[2], last'.ret[1])]_vars

\* An append to a list that has a node: both lists are held.
PAppendWitness ==
  /\ comp = "plist"
  /\ last.op = "append"
  /\ p.lists[last.arg[1]].st = "live"
  /\ p.lists[last.arg[1]].head # NULL
  /\ p.lists[last.ret[1]].st = "live"
  /\ PSeq(p, last.ret[1]) = <<2, 1>>

\* What tail of list l1, giving list l2, does to the heap.
PTailStep(l1, l2) ==
  LET hd == p.lists[l1].head
  IN /\ PSeq(p', l2) = IF PSeq(p, l1) = <<>> THEN <<>> ELSE Tail(PSeq(p, l1))
     /\ Len(PSeq(p, l1)) <= 1 => p'.lists[l2].head = NULL
     /\ p'.lists[l2].head = IF hd = NULL THEN NULL ELSE p.node[hd].next
     /\ PLive(p') = PLive(p)
     /\ p'.node = p.node
     /\ p'.lists[l1] = p.lists[l1]
     /\ PSeq(p', l1) = PSeq(p, l1)

\* C6: tail gives the list without its first element, made of the very nodes
\* of the source; it allocates nothing, the tail of an empty or one-element
\* list is empty, and the source list is as before.
PTailView ==
  [][(comp = "plist" /\ last'.op = "tail") =>
       PTailStep(last'.arg[1], last'.ret[1])]_vars

\* tail of a list of two elements: the result starts at the source's second
\* node.
PTailWitness ==
  /\ comp = "plist"
  /\ last.op = "tail"
  /\ p.lists[last.arg[1]].st = "live"
  /\ Len(PSeq(p, last.arg[1])) = 2
  /\ p.lists[last.ret[1]].head = p.node[p.lists[last.arg[1]].head].next
  /\ PSeq(p, last.ret[1]) = <<1>>

\* What a peek at end node a does: shared for peek_front and peek_back.
DPeekStep(a, shared) ==
  LET live == d.borrow[a]
      ok == IF shared THEN live >= 0 ELSE live = 0
  IN IF ok
       THEN /\ ~d'.panic
            /\ last'.ret = Some(d.node[a].elem)
            /\ d'.borrow[a] = IF shared THEN live + 1 ELSE -1
       ELSE d'.panic

\* C7: a peek of the deque panics exactly when the view it asks for is
\* refused: any view while a RefMut of that node is alive, a RefMut while a
\* Ref of that node is alive.  Refs of one node are granted side by side, and
\* a view is granted again once the views in its way are gone.  Front and
\* back may be the same node.
DequeAliasing ==
  [][(comp = "deque" /\ ~d.panic) =>
       /\ (last'.op = "peek_front" /\ d.head # NULL) => DPeekStep(d.head, TRUE)
       /\ (last'.op = "peek_back" /\ d.tail # NULL) => DPeekStep(d.tail, TRUE)
       /\ (last'.op = "peek_front_mut" /\ d.head # NULL) =>
            DPeekStep(d.head, FALSE)
       /\ (last'.op = "peek_back_mut" /\ d.tail # NULL) =>
            DPeekStep(d.tail, FALSE)]_vars

\* peek_back_mut has panicked on a one-element deque whose node peek_front
\* holds a Ref of.
DequeAliasingWitness ==
  /\ comp = "deque"
  /\ d.panic
  /\ last.op = "peek_back_mut"
  /\ d.head # NULL
  /\ d.head = d.tail
  /\ d.borrow[d.head] > 0

\* C8: pop, peek and head on an empty list return None, do not panic and
\* leave the list empty as it was.
AbsenceNoError ==
  [][/\ (comp = "queue" /\ qit.mode = "list" /\ q.head = NULL
           /\ last'.op = "pop") =>
          last'.ret = None /\ q' = q /\ q'.head = NULL /\ q'.tail = NULL
     /\ (comp = "stack" /\ sit.mode = "list" /\ s.head = NULL
           /\ last'.op = "pop") =>
          last'.ret = None /\ s' = s
     /\ (comp = "deque" /\ ~d.panic /\ d.head = NULL /\ d.tail = NULL
           /\ last'.op \in {"pop_front", "pop_back", "peek_front",
                            "peek_front_mut", "peek_back", "peek_back_mut"}) =>
          last'.ret = None /\ d' = d /\ ~d'.panic
     /\ (comp = "plist" /\ last'.op = "head"
           /\ p.lists[last'.arg[1]].head = NULL) =>
          last'.ret = None /\ p' = p]_vars

\* peek_back_mut has returned None on an empty deque.
AbsenceWitness ==
  /\ comp = "deque"
  /\ ~d.panic
  /\ last.op = "peek_back_mut"
  /\ last.ret = None
  /\ d = deque_new

\* C9: the stack is last in, first out.  pop returns the latest element
\* pushed and not yet popped, None when there is none; pops that follow all
\* the pushes return them in reverse.
StackLifo ==
  [][(comp = "stack" /\ last'.op \in {"pop"}) =>
       /\ last'.ret = IF slog.abs = <<>> THEN None ELSE Some(Head(slog.abs))
       /\ slog'.pure =>
            slog'.popped =
              SubSeq(Reverse(slog'.pushed), 1, Len(slog'.popped))]_vars

\* Three pushes and then three pops, which gave the reverse.
StackLifoWitness ==
  /\ comp = "stack"
  /\ last.op = "pop"
  /\ slog.pure
  /\ slog.pushed = <<1, 2, 2>>
  /\ slog.popped = <<2, 2, 1>>

\* C10: an iterator that has returned None returns None from then on: Iter,
\* IterMut and IntoIter of the queue, Iter and IntoIter of the stack, Iter of
\* the persistent list.
IterExhausted ==
  [][/\ (comp = "queue" /\ qit.nones > 0 /\ qit'.mode = qit.mode
           /\ last'.op = "next") => last'.ret = None
     /\ (comp = "stack" /\ sit.nones > 0 /\ sit'.mode = sit.mode
           /\ last'.op = "next") => last'.ret = None
     /\ (comp = "plist" /\ pit.nones > 0 /\ pit'.list = pit.list
           /\ last'.op = "next") => last'.ret = None]_vars

\* The Iter of a queue that has elements has returned None twice.
IterExhaustedWitness ==
  /\ comp = "queue"
  /\ qit.mode = "iter"
  /\ qit.nones = 2
  /\ q.head # NULL
  /\ last.op = "next"

\* What repeated pop returns from list l until it returns None.
RECURSIVE PopAll(_, _)
PopAll(l, fuel) ==
  LET r == queue_pop(l)
  IN IF r.ret = None \/ fuel = 0
       THEN <<>>
       ELSE r.ret \o PopAll(r.list, fuel - 1)

\* The elements of the queue's nodes from node a on.
QSeqFrom(l, a) ==
  ElemsAt(l.node, Walk([b \in QAddrs |-> l.node[b].next], a, QNodes + 1))

\* C11: the queue's iterators return the elements of the list they were made
\* from in the order from head to tail, each node's once, which is what
\* repeated pop returns; when next() has returned None they have returned
\* them all.  While an Iter or IterMut is in use the list, with its head, its
\* tail and its nodes, stays as it was.
QueueIterOrder ==
  (comp = "queue" /\ qit.mode \in {"iter", "iter_mut", "into_iter"}) =>
    LET all == PopAll(qit.at, QNodes + 1)
    IN /\ all = QSeqFrom(qit.at, qit.at.head)
       /\ IsPrefix(qit.out, all)
       /\ qit.nones > 0 => qit.out = all
       /\ qit.mode \in {"iter", "iter_mut"} =>
            /\ q = qit.at
            /\ qit.out \o QSeqFrom(q, qit.cur) = all
       /\ qit.mode = "into_iter" => qit.out \o PopAll(q, QNodes + 1) = all

\* An IterMut has run to its end over a queue of three nodes that was drained
\* and filled again before.
QueueIterOrderWitness ==
  /\ comp = "queue"
  /\ qit.mode = "iter_mut"
  /\ qit.nones > 0
  /\ qlog.drains >= 1
  /\ qit.out = <<1, 2, 2>>

\* A peek at the front of a non-empty deque, or the end of a view: the value
\* viewed is what pop_front returns once no view is alive, and the list's
\* links, nodes and counts stay.
DPeekFrame(l, r, front) ==
  LET idle == [r EXCEPT !.borrow = [a \in DAddrs |-> 0]]
      pop == IF front THEN deque_pop_front(idle) ELSE deque_pop_back(idle)
  IN /\ last'.ret # None
     /\ last'.ret = pop.ret
     /\ ~pop.list.panic
     /\ r.head = l.head
     /\ r.tail = l.tail
     /\ r.node = l.node
     /\ r.rc = l.rc
     /\ DSeq(r) = DSeq(l)

\* C12: on a non-empty deque peek_front and peek_front_mut view the element
\* the next pop_front returns, peek_back and peek_back_mut the element the
\* next pop_back returns; taking a view and letting go of it change neither
\* the sequence of elements nor head, tail, next or prev of any node.
DequePeekFrame ==
  [][(comp = "deque" /\ ~d.panic /\ ~d'.panic) =>
       /\ (last'.op \in {"peek_front", "peek_front_mut"} /\ d.head # NULL) =>
            DPeekFrame(d, d', TRUE)
       /\ (last'.op \in {"peek_back", "peek_back_mut"} /\ d.tail # NULL) =>
            DPeekFrame(d, d', FALSE)
       /\ last'.op = "view_end" =>
            /\ d'.head = d.head
            /\ d'.tail = d.tail
            /\ d'.node = d.node
            /\ d'.rc = d.rc
            /\ DSeq(d') = DSeq(d)]_vars

\* peek_back_mut has handed out a view of the last of three elements, which
\* differs from the first.
DequePeekFrameWitness ==
  /\ comp = "deque"
  /\ ~d.panic
  /\ last = Call("peek_back_mut", None, Some(2))
  /\ DSeq(d) = <<1, 1, 2>>
  /\ d.borrow[d.tail] = -1

\* C13: an iterator over a persistent list returns the list's elements from
\* the head to the end, each node's once; while it runs and after it has run
\* the list is what it was, and head() returns the same; an iterator made
\* later over the same list returns the same sequence again.
PIterRestartable ==
  comp = "plist" =>
    /\ pit.list = 0 => pit.seen = None
    /\ pit.list # 0 =>
         LET all == PSeq(p, pit.list)
         IN /\ p.lists[pit.list].st = "live"
            /\ pit.out \o PSeqFrom(p, pit.cur) = all
            /\ pit.nones > 0 => pit.out = all
            /\ pit.seen # None =>
                 /\ IsPrefix(pit.out, pit.seen[1])
                 /\ pit.nones > 0 => pit.out = pit.seen[1]
                 /\ all = pit.seen[1]
                 /\ plist_head(p, pit.list) =
                      IF pit.seen[1] = <<>> THEN None ELSE Some(pit.seen[1][1])

\* A second iterator over a list of two different elements is halfway, after
\* a first one ran to the end.
PIterRestartableWitness ==
  /\ comp = "plist"
  /\ pit.list # 0
  /\ pit.nones = 0
  /\ pit.out = <<1>>
  /\ pit.seen = Some(<<1, 2>>)

\* The links that hold a reference to node a: the list's head and tail, the
\* next of its predecessor, the prev of its successor.
DLinksTo(l, a) ==
  (IF l.head = a THEN 1 ELSE 0) + (IF l.tail = a THEN 1 ELSE 0)
    + Cardinality({b \in DLive(l) : l.node[b].next = a})
    + Cardinality({b \in DLive(l) : l.node[b].prev = a})

\* C14: between the calls of a deque every node is referenced by exactly two
\* of the links head, tail, its predecessor's next and its successor's prev,
\* and its strong count is two; so the Rc::try_unwrap of a pop, reached after
\* the other link was cleared, finds one reference and does not fail.
DequeDetach ==
  (comp = "deque" /\ ~d.panic) =>
    /\ \A a \in DAddrs :
         /\ d.rc[a] = DLinksTo(d, a)
         /\ d.rc[a] \in {0, 2}
    /\ DViewCount(d) = 0 =>
         /\ ~deque_pop_front(d).list.panic
         /\ ~deque_pop_back(d).list.panic

\* pop_front has detached and returned the head of a deque that keeps two
\* nodes.
DequeDetachWitness ==
  /\ comp = "deque"
  /\ ~d.panic
  /\ last.op = "pop_front"
  /\ last.ret # None
  /\ Cardinality(DLive(d)) = 2
  /\ DViewCount(d) = 0

\* A deque of exactly one node: head and tail are that node, which has no
\* next and no prev.
DSingle(l) ==
  /\ l.head # NULL
  /\ l.head = l.tail
  /\ l.node[l.head].next = NULL
  /\ l.node[l.head].prev = NULL
  /\ DLive(l) = {l.head}

DEmpty(l) == l.head = NULL /\ l.tail = NULL /\ DLive(l) = {}

\* C15: the deque's head is absent exactly when its tail is; with exactly one
\* element head and tail are the same node; a push onto the empty deque makes
\* the new node both head and tail, and a pop that removes the only node
\* clears both.
DequeBoundary ==
  (comp = "deque" /\ ~d.panic) =>
    /\ d.head = NULL <=> d.tail = NULL
    /\ d.head = NULL => DEmpty(d)
    /\ (Len(DSeq(d)) = 1 \/ Cardinality(DLive(d)) = 1
          \/ (d.head # NULL /\ d.head = d.tail)) =>
         DSingle(d)
    /\ d.head = NULL =>
         \A elem \in Elems :
           /\ DSingle(deque_push_front(d, elem).list)
           /\ DSingle(deque_push_back(d, elem).list)
           /\ DSeq(deque_push_front(d, elem).list) = <<elem>>
           /\ DSeq(deque_push_back(d, elem).list) = <<elem>>
    /\ (DSingle(d) /\ DViewCount(d) = 0) =>
         /\ DEmpty(deque_pop_front(d).list)
         /\ DEmpty(deque_pop_back(d).list)
         /\ deque_pop_front(d).ret = Some(d.node[d.head].elem)
         /\ deque_pop_back(d).ret = Some(d.node[d.head].elem)

\* pop_back has removed the only node of a deque that push_front had filled
\* from empty.
DequeBoundaryWitness ==
  /\ comp = "deque"
  /\ ~d.panic
  /\ last = Call("pop_back", None, Some(2))
  /\ d.head = NULL
  /\ d.tail = NULL

\* Drop of the deque has gone well so far: it has not panicked, every
\* pop_front it made took one node away, and when it is over it has made as
\* many as there were elements and no node is alive.
DDropReclaims ==
  /\ ~d.panic
  /\ dit.pops + Cardinality(DLive(d)) = dit.n
  /\ Len(DSeq(d)) = Cardinality(DLive(d))
  /\ \A a \in DAddrs : d.rc[a] \in {0, 2}
  /\ dit.mode = "dropping" => ENABLED DDropStep
  /\ dit.mode = "dropped" =>
       /\ dit.pops = dit.n
       /\ d.head = NULL
       /\ d.tail = NULL
       /\ \A a \in DAddrs : d.rc[a] = 0 /\ d.node[a] = DFree

\* C16: Drop of a deque, begun in any reachable state, ends after as many
\* pop_front calls as the deque has elements, and then every node has strong
\* count zero.
DequeDropReclaims ==
  (comp = "deque" /\ dit.mode \in {"dropping", "dropped"}) => DDropReclaims

\* C16, for a deque none of whose cells is still borrowed when Drop begins.
DequeDropUnborrowed ==
  (comp = "deque" /\ dit.mode \in {"dropping", "dropped"} /\ dit.views = 0) =>
    DDropReclaims

\* Drop has ended on a deque of three elements.
DequeDropWitness ==
  /\ comp = "deque"
  /\ dit.mode = "dropped"
  /\ dit.n = 3
  /\ dit.pops = 3

\* The nodes of the persistent list that starts at node a.
PChainFrom(h, a) == Walk([b \in PAddrs |-> h.node[b].next], a, PNodes + 1)

\* The nodes some list the caller holds reaches.
PReach(h) ==
  UNION {LET c == PChainFrom(h, h.lists[l].head)
         IN {c[i] : i \in 1..Len(c)} :
           l \in {k \in PIds : h.lists[k].st = "live"}}

\* One turn of Drop's loop on list l: a node that is referenced from elsewhere
\* ends the loop and stays as it is, with one reference less; a node that is
\* not is the only one freed, and no held list reaches it.
PDropTurn(l) ==
  LET c == p.lists[l].cur
  IN /\ (c # NULL /\ p.rc[c] > 1) =>
          /\ p'.lists[l].st = "none"
          /\ p'.node = p.node
          /\ p'.rc = [p.rc EXCEPT ![c] = @ - 1]
     /\ (c # NULL /\ p.rc[c] = 1) =>
          /\ c \notin PReach(p)
          /\ PLive(p') = PLive(p) \ {c}
          /\ p'.lists[l].cur = p.node[c].next
     /\ c = NULL => (p'.node = p.node /\ p'.rc = p.rc)

\* C17: dropping persistent lists, in any order, never frees a node another
\* list still uses: Drop releases from the head on and stops at the first
\* node that is referenced from elsewhere, and through every step each node a
\* held list reaches stays allocated, with its element and its next.
PDropKeepsShared ==
  [][(comp = "plist" /\ p' # p) =>
       /\ PReach(p') \subseteq PLive(p')
       /\ \A a \in PReach(p) \cap PReach(p') : p'.node[a] = p.node[a]
       /\ \A l \in PIds :
            (p.lists[l].st = "live" /\ p'.lists[l].st = "live") =>
              /\ PChainFrom(p', p'.lists[l].head) = PChainFrom(p, p.lists[l].head)
              /\ PSeq(p', l) = PSeq(p, l)
       /\ \A l \in PIds :
            (p.lists[l].st = "drop" /\ p'.lists[l] # p.lists[l]) =>
              PDropTurn(l)]_vars

\* Drop of a list has freed that list's own node and has come to a node that
\* is the head of a list the caller holds.
PDropKeepsSharedWitness ==
  /\ comp = "plist"
  /\ \E l, k \in PIds :
       /\ p.lists[l].st = "drop"
       /\ p.lists[l].cur # NULL
       /\ p.rc[p.lists[l].cur] = 2
       /\ p.lists[k].st = "live"
       /\ p.lists[k].head = p.lists[l].cur
       /\ \E b \in PAddrs : p.rc[b] = 0

\* The references to node a: the heads of the lists held, the local head of a
\* Drop that is running, and the next of the nodes allocated.
PRefsTo(h, a) ==
  Cardinality({l \in PIds : h.lists[l].st = "live" /\ h.lists[l].head = a})
    + Cardinality({l \in PIds : h.lists[l].st = "drop" /\ h.lists[l].cur = a})
    + Cardinality({b \in PLive(h) : h.node[b].next = a})

\* C18: the strong count of each node of the persistent lists is the number
\* of lists held whose head it is plus the number of allocated nodes whose
\* next it is (plus, while a Drop runs, that Drop's local head); a node is
\* freed exactly when its count is zero; when no Drop is running every node no
\* held list reaches is freed, and with no list left no node is left.
PRefCounts ==
  comp = "plist" =>
    /\ \A a \in PAddrs :
         /\ p.rc[a] = PRefsTo(p, a)
         /\ p.rc[a] = 0 <=> p.node[a] = PFree
         /\ p.rc[a] > 0 => p.node[a].elem \in Elems
    /\ (\A l \in PIds : p.lists[l].st # "drop") => PLive(p) = PReach(p)
    /\ (\A l \in PIds : p.lists[l].st = "none") => PLive(p) = {}

\* A node is counted twice, as the head of a list held and as the next of
\* another list's node, while no Drop runs.
PRefCountsWitness ==
  /\ comp = "plist"
  /\ \A l \in PIds : p.lists[l].st # "drop"
  /\ \E a, b \in PAddrs, l \in PIds :
       /\ p.rc[a] = 2
       /\ p.rc[b] = 1
       /\ p.node[b].next = a
       /\ p.lists[l].st = "live"
       /\ p.lists[l].head = a

\* One turn of the queue's Drop: the node at the cursor is the one node freed,
\* the cursor moves to its successor, which stays; on None the loop ends.
QDropTurn ==
  LET c == qit.cur
  IN IF c = NULL
       THEN q' = q /\ qit'.mode = "dropped"
       ELSE /\ q'.live = q.live \ {c}
            /\ qit'.mode = "dropping"
            /\ qit'.cur = q.node[c].next
            /\ \A b \in q'.live : q'.node[b] = q.node[b]

\* One turn of the persistent list's Drop on list l: it frees the one node at
\* its local head and goes on, or frees nothing and ends.
PDropOne(l) ==
  LET c == p.lists[l].cur
      freed == PLive(p) \ PLive(p')
  IN /\ PLive(p') \subseteq PLive(p)
     /\ \A b \in PLive(p') : p'.node[b] = p.node[b]
     /\ IF p'.lists[l].st = "drop"
          THEN freed = {c} /\ p'.lists[l].cur = p.node[c].next
          ELSE freed = {}

\* One turn of the deque's Drop: pop_front frees the one node at the head and
\* the head moves to its successor, or it frees nothing and the loop ends.
DDropTurn ==
  LET c == d.head
      freed == DLive(d) \ DLive(d')
  IN /\ DLive(d') \subseteq DLive(d)
     /\ \A b \in DLive(d') : d'.node[b].elem = d.node[b].elem
     /\ ~d'.panic => \A b \in DLive(d') : d'.node[b].next = d.node[b].next
     /\ IF dit'.mode = "dropping" /\ ~d'.panic
          THEN freed = {c} /\ d'.head = d.node[c].next
          ELSE freed = {}

\* A step of a Drop that one thread runs alone releases one node, whose links
\* were taken out first, or none and ends the loop.
DropTurn ==
  /\ (comp = "queue" /\ qit.mode = "dropping") => QDropTurn
  /\ comp = "plist" =>
       \A l \in PIds :
         (p.lists[l].st = "drop" /\ p'.lists[l] # p.lists[l]) => PDropOne(l)
  /\ (comp = "deque" /\ dit.mode = "dropping" /\ ~d.panic) => DDropTurn

\* C19, for lists that are dropped while no other thread drops a list that
\* shares nodes with them: Drop of the queue, of the persistent list and of
\* the deque releases the nodes one at a time in a loop, one node a turn, and
\* the loop ends after at most one turn per node.
DropOneByOne == [][DropTurn]_vars

\* Drop of a queue of three nodes has freed one of them and holds the next.
DropOneByOneWitness ==
  /\ comp = "queue"
  /\ qit.mode = "dropping"
  /\ Len(qlog.pushed) - Len(qlog.popped) = 3
  /\ Cardinality(q.live) = 2
  /\ qit.cur # NULL

\* C20: the nodes of the persistent lists are not written after they are
\* made: no step of append, tail, head, an iterator or Drop changes the elem
\* or the next of a node that is allocated before and after it.  The node
\* whose next Drop takes is one it has unwrapped: no list held reaches it and
\* it is freed in the same turn.
PNodesImmutable ==
  [][comp = "plist" =>
       /\ \A a \in PLive(p) \cap PLive(p') :
            /\ p'.node[a].elem = p.node[a].elem
            /\ p'.node[a].next = p.node[a].next
       /\ \A a \in PLive(p) \ PLive(p') :
            /\ a \notin PReach(p)
            /\ p.rc[a] = 1
            /\ \E l \in PIds : p.lists[l].st = "drop" /\ p.lists[l].cur = a
       /\ \A a \in PLive(p') \ PLive(p) :
            /\ last'.op = "append"
            /\ p'.node[a] = [elem |-> last'.arg[2],
                             next |-> p.lists[last'.arg[1]].head]]_vars

\* A list of two nodes is held as it was made, after the Drop of another list
\* has ended.
PNodesImmutableWitness ==
  /\ comp = "plist"
  /\ last.op = "drop"
  /\ \A l \in PIds : p.lists[l].st # "drop"
  /\ \E l \in PIds : p.lists[l].st = "live" /\ PSeq(p, l) = <<2, 1>>

\* C21: over the life of one IterMut each node's element is handed out as a
\* mutable reference at most once, and once next() has returned a node's
\* element the iterator holds no reference to that node: its cursor is the
\* node's successor or empty, never a node it has passed.
QueueIterMutOnce ==
  (comp = "queue" /\ qit.mode = "iter_mut") =>
    LET n == Len(qit.given)
    IN /\ \A i, j \in 1..n : i # j => qit.given[i] # qit.given[j]
       /\ \A i \in 1..n : qit.given[i] # qit.cur /\ qit.given[i] \in q.live
       /\ n > 0 => qit.cur = q.node[qit.given[n]].next
       /\ qit.given \o Walk([a \in QAddrs |-> q.node[a].next], qit.cur, QNodes + 1)
            = QChain(q)
       /\ ElemsAt(q.node, qit.given) = qit.out
       /\ qit.nones > 0 => qit.cur = NULL

\* An IterMut has handed out the elements of three different nodes and then
\* returned None.
QueueIterMutOnceWitness ==
  /\ comp = "queue"
  /\ qit.mode = "iter_mut"
  /\ Len(qit.given) = 3
  /\ qit.nones = 1
  /\ last = Call("next", None, None)

\* The call that gave r did not panic at a borrow or borrow_mut of a cell.
DBorrowsFine(r) == ~(r.list.panic /\ ~r.list.unwrap)

\* C22: with no peek view alive the deque's own borrows never meet a borrowed
\* cell: in no reachable state does push_front, push_back, pop_front or
\* pop_back panic at a borrow_mut.  In the pops the RefMut of the detached
\* node is still alive when its neighbour is borrowed; the neighbour is
\* another node, as no node is its own next or prev.
DequeBorrowsFree ==
  (comp = "deque" /\ ~d.panic /\ DViewCount(d) = 0) =>
    /\ \A a \in DLive(d) : d.node[a].next # a /\ d.node[a].prev # a
    /\ \A a \in DAddrs : d.borrow[a] = 0
    /\ DBorrowsFine(deque_pop_front(d))
    /\ DBorrowsFine(deque_pop_back(d))
    /\ DLive(d) # DAddrs =>
         \A elem \in Elems :
           /\ DBorrowsFine(deque_push_front(d, elem))
           /\ DBorrowsFine(deque_push_back(d, elem))
           /\ DViewCount(deque_push_front(d, elem).list) = 0
           /\ DViewCount(deque_push_back(d, elem).list) = 0
    /\ DViewCount(deque_pop_front(d).list) = 0
    /\ DViewCount(deque_pop_back(d).list) = 0

\* pop_back has detached the tail from a neighbour, which is now the tail of
\* two nodes, with no view alive.
DequeBorrowsFreeWitness ==
  /\ comp = "deque"
  /\ ~d.panic
  /\ DViewCount(d) = 0
  /\ last = Call("pop_back", None, Some(1))
  /\ Cardinality(DLive(d)) = 2
  /\ DSeq(d) = <<2, 1>>

\* The nodes list l of the lists dropped by threads reaches.
CReach(h, l) ==
  LET ch == Walk([a \in CAddrs |-> h.node[a].next], h.head[l],
                 Cardinality(CAddrs) + 1)
  IN {ch[i] : i \in 1..Len(ch)}

\* The references to node a: list heads, next links of allocated nodes, the
\* Arc a thread holds in Drop, and the next of a node a thread has moved out.
CRefsTo(h, a) ==
  Cardinality({l \in CLists : h.head[l] = a})
    + Cardinality({b \in h.alloc : h.node[b].next = a})
    + Cardinality({t \in Threads :
                     h.th[t].pc \in {"loop", "err"} /\ h.th[t].cur = a})
    + Cardinality({t \in Threads : h.th[t].pc = "own" /\ h.th[t].own.next = a})

\* C23: two lists that share nodes are dropped by two threads at once.  Under
\* every interleaving of the try_unwrap and release steps of the two Drops no
\* freed memory is touched, each node is freed at most once, a list that is
\* not dropped yet (list 3, or a thread's list before its Drop) reaches only
\* allocated nodes, which are as they were made, and when both Drops are over
\* every node is freed but those list 3 reaches.
ThreadsDropSafe ==
  comp = "threads" =>
    LET made == {a \in CAddrs : arcs.made[a] # PFree}
        kept == CReach(arcs, 3)
        held == UNION {CReach(arcs, t) : t \in {u \in Threads :
                                                  arcs.th[u].pc = "start"}}
    IN /\ ~arcs.ub
       /\ \A a \in CAddrs :
            /\ arcs.frees[a] <= 1
            /\ a \in arcs.alloc <=> (a \in made /\ arcs.frees[a] = 0)
            /\ a \in arcs.alloc =>
                 /\ arcs.node[a] = arcs.made[a]
                 /\ arcs.rc[a] = CRefsTo(arcs, a)
                 /\ arcs.rc[a] > 0
       /\ kept \cup held \subseteq arcs.alloc
       /\ (\A t \in Threads : arcs.th[t].pc = "done") =>
            /\ arcs.alloc = kept
            /\ \A a \in made \ kept : arcs.frees[a] = 1
            /\ arcs.head[3] = NULL => arcs.alloc = {}

\* Both threads have got their Arc of the first shared node back from
\* try_unwrap, after one of them has freed a node of its own, and no other
\* list holds the shared nodes.
ThreadsDropWitness ==
  /\ comp = "threads"
  /\ arcs.th[1].pc = "err"
  /\ arcs.th[2].pc = "err"
  /\ arcs.th[1].cur = arcs.th[2].cur
  /\ arcs.head[3] = NULL
  /\ arcs.rc[arcs.th[1].cur] = 2
  /\ arcs.node[arcs.th[1].cur].next # NULL
  /\ \E a \in CAddrs : arcs.frees[a] = 1

\* A step of thread t in Drop releases no node inside another: try_unwrap
\* frees at most the node at the local head, whose next the loop then takes;
\* when the Arc it gave back is let go, a node freed by that has no next, so
\* that nothing is released from inside it, and the Drop is over.
TDropTurn(t) ==
  /\ (arcs.th[t].pc = "loop" /\ arcs'.th[t] # arcs.th[t]) =>
       arcs.alloc \ arcs'.alloc \subseteq {arcs.th[t].cur}
  /\ (arcs.th[t].pc = "err" /\ arcs'.th[t] # arcs.th[t]) =>
       /\ \A a \in arcs.alloc \ arcs'.alloc : arcs.node[a].next = NULL
       /\ arcs'.th[t].pc = "done"

\* C19: teardown never recurses per element: Drop of the queue, of the
\* persistent list and of the deque releases the nodes one at a time in a
\* loop, each after its own links were emptied, so that the release of one
\* node never brings on the release of another inside it.
DropNeverNested ==
  [][/\ DropTurn
     /\ comp = "threads" => \A t \in Threads : TDropTurn(t)]_vars

====
